---------------------------- MODULE Spec2Model ----------------------------
(***************************************************************************)
(* Selective disclosure example (src/example-smart-contract.ts).           *)
(*                                                                         *)
(* The program keeps a ledger object (publicLedger), a witness that        *)
(* supplies Riley's data store, a constructor that uploads it, and a       *)
(* disclosure circuit that filters a data store through a boolean mask.    *)
(*                                                                         *)
(* JavaScript objects are modelled on a heap: a reference is an index into *)
(* the sequence heap, an ordinary object is the sequence of its own        *)
(* properties <<key, value>> in enumeration order, an array is the         *)
(* sequence of its elements.  Property keys are strings, modelled as       *)
(* sequences of one-character strings so that parseInt and the number to   *)
(* string conversion are computed character by character.                  *)
(*                                                                         *)
(* JavaScript runs every call to completion (the file has no await and no  *)
(* callback), so each call is one atomic action and concurrency is the     *)
(* interleaving of whole calls.                                            *)
(***************************************************************************)
EXTENDS Integers, Sequences, FiniteSets

VARIABLES
    heap,          \* the objects allocated so far, by reference
    publicLedger,  \* the ledger: [data |-> reference of the stored data store]
    input,         \* the (request, data) references a direct caller holds
    calls          \* log of the calls of perform_selective_disclosure

vars == <<heap, publicLedger, input, calls>>

---------------------------------------------------------------------------
(* Bounds of the model *)

\* Most calls of the disclosure circuit in a behaviour of Spec.
MaxCalls == 3

\* Most direct calls of perform_selective_disclosure in a behaviour of
\* SpecPure.
MaxDirectCalls == 1

\* Most properties of a data store handed to a direct call.
MaxEntries == 2

---------------------------------------------------------------------------
(* Strings and numbers *)

Digits == <<"0", "1", "2", "3", "4", "5", "6", "7", "8", "9">>

IsDigit(c) == c \in {Digits[i] : i \in 1..10}

DigitVal(c) == (CHOOSE i \in 1..10 : Digits[i] = c) - 1

\* Number::toString for a non-negative integer: the canonical decimal string.
RECURSIVE ToString(_)
ToString(n) ==
    IF n < 10 THEN <<Digits[n + 1]>>
    ELSE Append(ToString(n \div 10), Digits[(n % 10) + 1])

\* White space that parseInt's trimming skips (the members the model uses).
IsWhiteSpace(c) == c \in {" ", "\t", "\n"}

RECURSIVE TrimStart(_)
TrimStart(s) ==
    IF s # <<>> /\ IsWhiteSpace(Head(s)) THEN TrimStart(Tail(s)) ELSE s

\* The longest prefix of s made of decimal digits.
RECURSIVE DigitPrefix(_)
DigitPrefix(s) ==
    IF s # <<>> /\ IsDigit(Head(s))
    THEN <<Head(s)>> \o DigitPrefix(Tail(s))
    ELSE <<>>

\* The mathematical value of a string of decimal digits.
RECURSIVE DigitsValue(_)
DigitsValue(s) ==
    IF s = <<>> THEN 0
    ELSE 10 * DigitsValue(SubSeq(s, 1, Len(s) - 1)) + DigitVal(s[Len(s)])

NaN == [isNaN |-> TRUE]

Num(n) == [isNaN |-> FALSE, n |-> n]

\* A strict parse in place of parseInt: a number only for the canonical
\* string of a non-negative integer, NaN for everything else.
parseInt_strict(key) ==
    IF key # <<>> /\ (\A i \in 1..Len(key) : IsDigit(key[i]))
                /\ (Len(key) = 1 \/ key[1] # "0")
    THEN Num(DigitsValue(key))
    ELSE NaN

\* parseInt(string, 10): skip leading white space, take an optional sign,
\* read the longest run of digits, NaN when there is none.  Radix 10 strips
\* no "0x" prefix.  -0 and 0 are one integer here, as they are one property
\* key ("0") when used as an index.
parseInt(key) ==
    LET s    == TrimStart(key)
        neg  == s # <<>> /\ Head(s) = "-"
        body == IF s # <<>> /\ Head(s) \in {"+", "-"} THEN Tail(s) ELSE s
        z    == DigitPrefix(body)
    IN  IF z = <<>> THEN NaN
        ELSE Num(IF neg THEN 0 - DigitsValue(z) ELSE DigitsValue(z))

\* An array index key: the canonical string of a non-negative integer.
\* Own properties enumerate these first, in ascending numeric order.
IsArrayIndex(key) ==
    /\ key # <<>>
    /\ \A i \in 1..Len(key) : IsDigit(key[i])
    /\ (Len(key) = 1 \/ key[1] # "0")

---------------------------------------------------------------------------
(* Objects and arrays *)

\* TRUE, for every value: the evaluator works v out before it goes on, which
\* keeps the evaluation of a long loop from nesting one level per iteration.
Evaluated(v) == v = v

Undefined == [defined |-> FALSE]

Defined(v) == [defined |-> TRUE, v |-> v]

\* ToBoolean of the outcome of a read of a boolean[]: undefined is falsy.
ToBoolean(x) == x.defined /\ x.v

\* ArrayGet reading one slot too low: the ordinal taken as a position
\* counted from 1.
ArrayGet_offByOne(array, index) ==
    IF ~index.isNaN /\ index.n >= 1 /\ index.n <= Len(array)
    THEN Defined(array[index.n])
    ELSE Undefined

\* ArrayGet wrapping an index past the end round to the start instead of
\* answering undefined.
ArrayGet_wraps(array, index) ==
    IF ~index.isNaN /\ index.n >= 0 /\ Len(array) > 0
    THEN Defined(array[(index.n % Len(array)) + 1])
    ELSE Undefined

\* array[index] for a Number index: the element when index is an integer
\* within the array, undefined otherwise (NaN, negative, at or past the end).
ArrayGet(array, index) ==
    IF ~index.isNaN /\ index.n >= 0 /\ index.n < Len(array)
    THEN Defined(array[index.n + 1])
    ELSE Undefined

Keys(obj) == {obj[i][1] : i \in 1..Len(obj)}

HasKey(obj, key) == \E i \in 1..Len(obj) : obj[i][1] = key

\* obj[key] for a key the object has.
ObjGet(obj, key) == obj[CHOOSE i \in 1..Len(obj) : obj[i][1] = key][2]

\* Whether a new property key is enumerated before the existing key other:
\* array indices ascending first, then the other strings in creation order.
Precedes(key, other) ==
    /\ IsArrayIndex(key)
    /\ (~IsArrayIndex(other) \/ DigitsValue(key) < DigitsValue(other))

\* Defining the own property key of an object, as an object literal with a
\* computed key or JSON.parse does: an existing property keeps its place, a
\* new one takes the place the enumeration order gives it (the end, when it
\* does not precede the last property: the properties are in order).
ObjDefine(obj, key, value) ==
    IF HasKey(obj, key)
    THEN [i \in 1..Len(obj) |->
            IF obj[i][1] = key THEN <<key, value>> ELSE obj[i]]
    ELSE IF obj = <<>> \/ ~Precedes(key, obj[Len(obj)][1])
    THEN Append(obj, <<key, value>>)
    ELSE LET before == {i \in 1..Len(obj) : ~Precedes(key, obj[i][1])}
             n      == Cardinality(before)
         IN  SubSeq(obj, 1, n) \o <<<<key, value>>>> \o SubSeq(obj, n + 1, Len(obj))

\* The one key Object.prototype holds an accessor for.
ProtoKey == <<"_", "_", "p", "r", "o", "t", "o", "_", "_">>

\* obj[key] = value, for an object created by {} and a value that is an
\* object: the assignment defines the own property, except for the key
\* __proto__, whose setter replaces the prototype of obj and defines no own
\* property.
ObjSet(obj, key, value) ==
    IF key = ProtoKey THEN obj ELSE ObjDefine(obj, key, value)

\* Object.entries(obj): the own properties in enumeration order.
Object_entries(obj) == obj

\* obj after the properties lo..hi of props are defined on it, in that
\* order (the range is split in halves only to keep the evaluation shallow;
\* the definitions still happen first to last).
RECURSIVE AssignAll(_, _, _, _)
AssignAll(obj, props, lo, hi) ==
    IF lo > hi THEN obj
    ELSE IF lo = hi THEN ObjDefine(obj, props[lo][1], props[lo][2])
    ELSE LET mid   == (lo + hi) \div 2
             first == AssignAll(obj, props, lo, mid)
         IN  IF Evaluated(first) THEN AssignAll(first, props, mid + 1, hi) ELSE first

\* An object literal: the properties of props defined in turn.
ObjectFrom(props) == AssignAll(<<>>, props, 1, Len(props))

\* Array(n).fill(false) followed by array[i] = true for the i in trues.
ArrayFilled(n, trues) == [i \in 1..n |-> (i - 1) \in trues]

---------------------------------------------------------------------------
(* The field registry and the program's data *)

\* enum PersonalData: the member names in declaration order; a member's value
\* is its position counted from 0, and the last member, length, counts the
\* fields before it.
PersonalDataNames == <<
    "name", "surname", "age", "email", "phone", "address", "gender",
    "maritalStatus", "nickname", "dateOfBirth", "placeOfBirth",
    "socialSecurityNumber", "bankAccountNumber", "creditCardNumber",
    "passportNumber", "driverLicenseNumber", "healthInsuranceNumber",
    "taxIdentificationNumber", "healthRecords", "medicalConditions",
    "height", "weight", "hairColor", "eyeColor", "familyMedicalHistory",
    "allergies", "medications", "employmentHistory", "employmentStatus",
    "salary", "jobTitle", "skills", "languagesSpoken", "hobbies",
    "interests", "references", "educationHistory", "criminalHistory",
    "socialMediaProfiles", "resume", "coverLetter", "profilePicture",
    "length" >>

\* PersonalData.<name>: the ordinal of an enum member.
PersonalData(name) ==
    (CHOOSE i \in 1..Len(PersonalDataNames) : PersonalDataNames[i] = name) - 1

PersonalData_length == PersonalData("length")

\* The property values of the object literal rileyData, in source order.
rileyDataValues == <<
    "Riley", "Smith", "30", "riley.smith@test.com", "123-456-7890",
    "123 Main St, Anytown, USA", "Non-binary", "Single", "Riley",
    "1993-01-01", "Anytown, USA", "123-45-6789", "987654321",
    "4111-1111-1111-1111", "X123456789", "D123456789", "H123456789",
    "T123456789", "Record1, Record2", "Condition1, Condition2", "180cm",
    "70kg", "Blonde", "Green", "History1, History2", "Allergy1, Allergy2",
    "Medication1, Medication2", "Job1, Job2", "Employed", "100000",
    "Software Engineer", "JavaScript, TypeScript, React, Compact",
    "English, Spanish", "Reading, Hiking, Dancing, Cooking",
    "Technology, Art, Musicm, Traveling", "Reference1, Reference2",
    "Degree1, Degree2", "None", "Profile1, Profile2", "Resume content",
    "Cover letter content", "profile-pic.jpg" >>

\* const rileyData = { [PersonalData.name]: "Riley", ... }: a computed key
\* is the string of the member's ordinal.
rileyData ==
    ObjectFrom([i \in 1..Len(rileyDataValues) |->
                  <<ToString(PersonalData(PersonalDataNames[i])), rileyDataValues[i]>>])

\* const doctorDisclosureRequest = Array(PersonalData.length).fill(false), then
\* doctorDisclosureRequest[PersonalData.<field>] = true for the fields below.
doctorDisclosureRequest ==
    ArrayFilled(PersonalData_length, {PersonalData(f) : f \in {
        "name", "surname", "age", "email", "phone", "address",
        "healthRecords", "familyMedicalHistory", "medications", "allergies" }})

\* const jobDisclosureRequest = Array(PersonalData.length).fill(false), then
\* jobDisclosureRequest[PersonalData.<field>] = true for the fields below.
jobDisclosureRequest ==
    ArrayFilled(PersonalData_length, {PersonalData(f) : f \in {
        "name", "surname", "email", "phone", "address", "jobTitle",
        "skills", "languagesSpoken", "references", "educationHistory",
        "resume" }})

\* const rentalDisclosureRequest = Array(PersonalData.length).fill(false), then
\* rentalDisclosureRequest[PersonalData.<field>] = true for the fields below.
rentalDisclosureRequest ==
    ArrayFilled(PersonalData_length, {PersonalData(f) : f \in {
        "name", "surname", "email", "phone", "address", "employmentStatus",
        "salary", "references", "profilePicture" }})

\* const schoolDisclosureRequest = Array(PersonalData.length).fill(false), then
\* schoolDisclosureRequest[PersonalData.<field>] = true for the fields below.
schoolDisclosureRequest ==
    ArrayFilled(PersonalData_length, {PersonalData(f) : f \in {
        "name", "surname", "age", "email", "phone", "address",
        "dateOfBirth", "educationHistory", "profilePicture" }})

\* const idRenewalDisclosureRequest = Array(PersonalData.length).fill(false), then
\* idRenewalDisclosureRequest[PersonalData.<field>] = true for the fields below.
idRenewalDisclosureRequest ==
    ArrayFilled(PersonalData_length, {PersonalData(f) : f \in {
        "name", "surname", "age", "email", "phone", "address",
        "dateOfBirth", "socialSecurityNumber", "passportNumber",
        "driverLicenseNumber" }})

---------------------------------------------------------------------------
(* The module's state and functions *)

\* The state every function of the file has in scope: the heap and the
\* binding publicLedger.
State == [heap |-> heap, publicLedger |-> publicLedger]

\* Reference of the object literal {} the ledger starts with.
InitialLedgerRef == 1

\* Reference of the object the constant rileyData is bound to.
rileyDataRef == 2

\* The heap once the module's declarations have run.
ProgramHeap == << <<>>, rileyData >>

\* What a call of perform_selective_disclosure leaves: the state after it,
\* its frame (the arguments it received, the reference it returned) and how
\* it completed.  The function has one exit, its return statement: it holds
\* no throw and no error value.
Return(st, request, data, ret) ==
    [st |-> st, request |-> request, data |-> data, ret |-> ret,
     completion |-> "return"]

\* witness_get_data reading the ledger instead of rileyData.
witness_get_data_fromLedger(st) == st.publicLedger.data

\* function witness_get_data(): returns rileyData, whatever the ledger holds.
witness_get_data(st) == rileyDataRef

\* circuit_upload_data that copies the fields of the store into the object
\* the ledger already holds, and stops one field short.
circuit_upload_data_skipsLast(st) ==
    LET data   == witness_get_data(st)
        fields == st.heap[data]
    IN  [st EXCEPT !.heap[st.publicLedger.data] =
                       SubSeq(fields, 1, Len(fields) - 1)]

\* function circuit_upload_data(): publicLedger.data = witness_get_data().
circuit_upload_data(st) ==
    LET data == witness_get_data(st)
    IN  [st EXCEPT !.publicLedger = [data |-> data]]

\* Maybe<T>: { is_some: true, value } or { is_some: false }.
Some(value) == [is_some |-> TRUE, value |-> value]

None == [is_some |-> FALSE]

\* The loop body with an else branch that keeps the value beside
\* is_some: false.
DisclosureStep_leaksValue(st, request, entry, result) ==
    LET key   == entry[1]
        value == entry[2]
        index == parseInt(key)
    IN  IF ToBoolean(ArrayGet(st.heap[request], index))
        THEN [st EXCEPT !.heap[result] = ObjSet(@, key, Some(value))]
        ELSE [st EXCEPT !.heap[result] = ObjSet(@, key, [is_some |-> FALSE, value |-> value])]

\* The loop body with no else branch: a field that is not disclosed gets no
\* entry.
DisclosureStep_dropsWithheld(st, request, entry, result) ==
    LET key   == entry[1]
        value == entry[2]
        index == parseInt(key)
    IN  IF ToBoolean(ArrayGet(st.heap[request], index))
        THEN [st EXCEPT !.heap[result] = ObjSet(@, key, Some(value))]
        ELSE st

\* The body of the for loop of perform_selective_disclosure for one entry
\* [key, value] of the data: the index is parsed from the key, the request
\* is read at that index, and result[key] is assigned either way.
DisclosureStep(st, request, entry, result) ==
    LET key   == entry[1]
        value == entry[2]
        index == parseInt(key)
    IN  IF ToBoolean(ArrayGet(st.heap[request], index))
        THEN [st EXCEPT !.heap[result] = ObjSet(@, key, Some(value))]
        ELSE [st EXCEPT !.heap[result] = ObjSet(@, key, None)]

\* for (const [key, value] of entries): the loop body for the entries
\* lo..hi, first to last (the range is split in halves only to keep the
\* evaluation shallow).
RECURSIVE DisclosureLoop(_, _, _, _, _, _)
DisclosureLoop(st, request, entries, lo, hi, result) ==
    IF lo > hi THEN st
    ELSE IF lo = hi THEN DisclosureStep(st, request, entries[lo], result)
    ELSE LET mid   == (lo + hi) \div 2
             first == DisclosureLoop(st, request, entries, lo, mid, result)
         IN  IF Evaluated(first)
             THEN DisclosureLoop(first, request, entries, mid + 1, hi, result)
             ELSE first

\* perform_selective_disclosure that also deletes from data the properties
\* it did not disclose.
perform_selective_disclosure_redactsData(st, request, data) ==
    LET result  == Len(st.heap) + 1
        st1     == [st EXCEPT !.heap = Append(@, <<>>)]
        entries == Object_entries(st1.heap[data])
        st2     == DisclosureLoop(st1, request, entries, 1, Len(entries), result)
        kept(e) == \E i \in 1..Len(st2.heap[result]) :
                       /\ st2.heap[result][i][1] = e[1]
                       /\ st2.heap[result][i][2].is_some
        st3     == [st2 EXCEPT !.heap[data] = SelectSeq(@, kept)]
    IN  Return(st3, request, data, result)

\* perform_selective_disclosure that reads the store the ledger holds instead
\* of its data parameter.
perform_selective_disclosure_readsLedger(st, request, data) ==
    LET result  == Len(st.heap) + 1
        st1     == [st EXCEPT !.heap = Append(@, <<>>)]
        entries == Object_entries(st1.heap[st1.publicLedger.data])
        st2     == DisclosureLoop(st1, request, entries, 1, Len(entries), result)
    IN  Return(st2, request, data, result)

\* function perform_selective_disclosure(request, data): a new object
\* result = {}, one assignment per entry of Object.entries(data), and the
\* result returned.
perform_selective_disclosure(st, request, data) ==
    LET result  == Len(st.heap) + 1
        st1     == [st EXCEPT !.heap = Append(@, <<>>)]
        entries == Object_entries(st1.heap[data])
        st2     == DisclosureLoop(st1, request, entries, 1, Len(entries), result)
    IN  Return(st2, request, data, result)

\* circuit_selective_disclosure that runs the upload before it discloses.
circuit_selective_disclosure_uploads(st, request) ==
    LET data == witness_get_data(st)
    IN  perform_selective_disclosure(circuit_upload_data(st), request, data)

\* function circuit_selective_disclosure(request): the data comes from
\* witness_get_data().
circuit_selective_disclosure(st, request) ==
    LET data == witness_get_data(st)
    IN  perform_selective_disclosure(st, request, data)

---------------------------------------------------------------------------
(* Inputs *)

\* The requests the script builds.
ProgramRequests ==
    { doctorDisclosureRequest, jobDisclosureRequest, rentalDisclosureRequest,
      schoolDisclosureRequest, idRenewalDisclosureRequest }

\* Keys of the data stores handed to a direct call: registry ordinals (the
\* first two and the last), the first ordinal past the registry, a negative
\* number, a name, two keys that are no ordinal's string but parse to one,
\* and __proto__.
PureKeys ==
    { ToString(0), ToString(1), ToString(PersonalData_length - 1),
      ToString(PersonalData_length),
      <<"-", "1">>, <<"a", "g", "e">>, <<"1", "x">>, <<" ", "1">>, ProtoKey }

\* The indices at which the masks of a direct call vary.
PureIndices == {0, 1, PersonalData_length - 1, PersonalData_length}

\* The lengths of the masks of a direct call: the registry's cardinality,
\* one less, one more, and two short ones.
PureLengths ==
    {0, 2, PersonalData_length - 1, PersonalData_length, PersonalData_length + 1}

PureRequests ==
    {ArrayFilled(n, trues) : n \in PureLengths, trues \in SUBSET PureIndices}

\* Sequences of distinct keys, at most n long: the order of insertion.
RECURSIVE KeySeqs(_)
KeySeqs(n) ==
    IF n = 0 THEN {<<>>}
    ELSE LET shorter == KeySeqs(n - 1)
             longest == {s \in shorter : Len(s) = n - 1}
         IN  shorter \cup
             UNION {{Append(s, k) : k \in PureKeys \ {s[i] : i \in 1..Len(s)}} :
                    s \in longest}

\* The data stores of a direct call: the i-th key inserted holds the i-th
\* value of rileyDataValues.
PureStores ==
    {ObjectFrom([i \in 1..Len(s) |-> <<s[i], rileyDataValues[i]>>]) :
        s \in KeySeqs(MaxEntries)}

---------------------------------------------------------------------------
(* Actions *)

\* The log entry of a call: who called, the frame, and what the ledger held
\* when the call was made.
CallRecord(caller, out, ledgerData) ==
    [caller     |-> caller,
     request    |-> out.request,
     data       |-> out.data,
     result     |-> out.ret,
     completion |-> out.completion,
     ledger     |-> ledgerData]

\* circuit_upload_data();
Upload ==
    /\ LET st == circuit_upload_data(State)
       IN  /\ heap' = st.heap
           /\ publicLedger' = st.publicLedger
    /\ UNCHANGED <<input, calls>>

\* const request = Array(...)...; circuit_selective_disclosure(request);
CallCircuit(r) ==
    /\ Len(calls) < MaxCalls
    /\ LET request == Len(heap) + 1
           st      == [State EXCEPT !.heap = Append(@, r)]
           out     == circuit_selective_disclosure(st, request)
       IN  /\ heap' = out.st.heap
           /\ publicLedger' = out.st.publicLedger
           /\ calls' = Append(calls, CallRecord("circuit", out, publicLedger.data))
    /\ UNCHANGED input

\* perform_selective_disclosure(request, data) called directly with the
\* caller's request and data.
CallPerform ==
    /\ Len(calls) < MaxDirectCalls
    /\ LET out == perform_selective_disclosure(State, input.request, input.data)
       IN  /\ heap' = out.st.heap
           /\ publicLedger' = out.st.publicLedger
           /\ calls' = Append(calls, CallRecord("direct", out, publicLedger.data))
    /\ UNCHANGED input

\* The program: the module's declarations have run, no call was made yet.
Init ==
    /\ heap = ProgramHeap
    /\ publicLedger = [data |-> InitialLedgerRef]
    /\ input = [request |-> 0, data |-> 0]
    /\ calls = <<>>

Next ==
    \/ Upload
    \/ \E r \in ProgramRequests : CallCircuit(r)

Spec == Init /\ [][Next]_vars

\* A direct caller: it holds a request and a data store of its own.
InitPure ==
    \E r \in PureRequests, d \in PureStores :
        /\ heap = ProgramHeap \o <<r, d>>
        /\ publicLedger = [data |-> InitialLedgerRef]
        /\ input = [request |-> Len(ProgramHeap) + 1, data |-> Len(ProgramHeap) + 2]
        /\ calls = <<>>

NextPure ==
    \/ Upload
    \/ CallPerform

SpecPure == InitPure /\ [][NextPure]_vars

---------------------------------------------------------------------------
(* Properties *)

\* The logged calls.
Calls == {calls[i] : i \in 1..Len(calls)}

DirectCalls == {c \in Calls : c.caller = "direct"}

CircuitCalls == {c \in Calls : c.caller = "circuit"}

\* The mask, the data store and the result of a logged call, as the heap
\* holds them now.
MaskOf(c) == heap[c.request]

DataOf(c) == heap[c.data]

ResultOf(c) == heap[c.result]

\* The registry's FieldIds, by ordinal, and the key a field is stored under.
Ordinals == 0..(PersonalData_length - 1)

FieldKeys == [o \in Ordinals |-> ToString(o)]

FieldKey(o) == FieldKeys[o]

\* The registry fields present in a data store.
Present(d) == {o \in Ordinals : HasKey(d, FieldKey(o))}

\* m[o] for a mask m: defined only within the mask.
MaskHas(m, o) == o >= 0 /\ o < Len(m)

MaskAt(m, o) == m[o + 1]

\* The entry of a result for a key is Withheld: is_some false and no value.
IsWithheld(res, key) ==
    /\ HasKey(res, key)
    /\ ObjGet(res, key).is_some = FALSE
    /\ DOMAIN ObjGet(res, key) = {"is_some"}

\* The entry of a result for a key is Disclosed(v).
IsDisclosed(res, key, v) ==
    /\ HasKey(res, key)
    /\ ObjGet(res, key).is_some = TRUE
    /\ DOMAIN ObjGet(res, key) = {"is_some", "value"}
    /\ ObjGet(res, key).value = v

\* A result carries the value of some field.
DisclosesSomething(res) ==
    \E i \in 1..Len(res) : res[i][2].is_some \/ "value" \in DOMAIN res[i][2]

\* C1 (Soundness): in every call, a registry field present in the data
\* whose mask entry is false has the entry Withheld in the result: is_some
\* is false and the entry carries no value.
C1_Soundness ==
    \A c \in DirectCalls : \A o \in Present(DataOf(c)) :
        (MaskHas(MaskOf(c), o) /\ MaskAt(MaskOf(c), o) = FALSE)
            => IsWithheld(ResultOf(c), FieldKey(o))

\* A call with a mask of the registry's length that is false at the last
\* ordinal, on a store that holds that field: the field came out Withheld.
C1_Witness ==
    \E c \in DirectCalls :
        LET o == PersonalData_length - 1
        IN  /\ Len(MaskOf(c)) = PersonalData_length
            /\ o \in Present(DataOf(c))
            /\ MaskAt(MaskOf(c), o) = FALSE
            /\ MaskAt(MaskOf(c), 0) = TRUE
            /\ IsWithheld(ResultOf(c), FieldKey(o))

\* C2 (Fidelity): in every call, a registry field present in the data whose
\* mask entry is true has the entry Disclosed in the result, with the very
\* value the data holds for it.
C2_Fidelity ==
    \A c \in DirectCalls : \A o \in Present(DataOf(c)) :
        (MaskHas(MaskOf(c), o) /\ MaskAt(MaskOf(c), o) = TRUE)
            => IsDisclosed(ResultOf(c), FieldKey(o), ObjGet(DataOf(c), FieldKey(o)))

\* A call that disclosed the last field of the registry and withheld the
\* first, both present with different values.
C2_Witness ==
    \E c \in DirectCalls :
        LET o == PersonalData_length - 1
        IN  /\ {0, o} \subseteq Present(DataOf(c))
            /\ Len(MaskOf(c)) = PersonalData_length
            /\ MaskAt(MaskOf(c), o) = TRUE
            /\ MaskAt(MaskOf(c), 0) = FALSE
            /\ ObjGet(DataOf(c), FieldKey(o)) # ObjGet(DataOf(c), FieldKey(0))
            /\ IsDisclosed(ResultOf(c), FieldKey(o), ObjGet(DataOf(c), FieldKey(o)))

\* C3 (Completeness): in every call with a mask of the registry's length,
\* the registry fields that have an entry in the result are exactly the
\* registry fields present in the data, each with one entry; a registry
\* field absent from the data has no entry at all, and the result has no
\* entry for anything the data does not hold.
C3_Completeness ==
    \A c \in DirectCalls :
        Len(MaskOf(c)) = PersonalData_length =>
            /\ \A o \in Ordinals :
                   HasKey(ResultOf(c), FieldKey(o)) <=> o \in Present(DataOf(c))
            /\ \A o \in Ordinals :
                   Cardinality({i \in 1..Len(ResultOf(c)) :
                                   ResultOf(c)[i][1] = FieldKey(o)}) <= 1
            /\ Keys(ResultOf(c)) \subseteq Keys(DataOf(c))

\* A call with a valid mask on a store that holds the first field, withheld,
\* and lacks the second, whose mask entry is true: the first has an entry,
\* the second has none.
C3_Witness ==
    \E c \in DirectCalls :
        /\ Len(MaskOf(c)) = PersonalData_length
        /\ 0 \in Present(DataOf(c))
        /\ 1 \notin Present(DataOf(c))
        /\ MaskAt(MaskOf(c), 0) = FALSE
        /\ MaskAt(MaskOf(c), 1) = TRUE
        /\ IsWithheld(ResultOf(c), FieldKey(0))
        /\ ~HasKey(ResultOf(c), FieldKey(1))

\* C4, as claimed: a call whose mask is shorter or longer than the registry
\* completes with MaskLengthMismatch and produces no result.
C4_MismatchReported ==
    \A c \in DirectCalls :
        Len(MaskOf(c)) # PersonalData_length =>
            /\ c.completion = "MaskLengthMismatch"
            /\ c.result \notin DOMAIN heap

\* C4, amended: a call whose mask is shorter or longer than the registry
\* returns normally, with a result that has an entry for every registry
\* field present in the data and for nothing the data does not hold; the
\* mask is used as it is: a present registry field whose ordinal is at or
\* past the end of the mask is Withheld, one within the mask is Disclosed
\* with its value or Withheld as its mask entry says.
C4_MismatchTolerated ==
    \A c \in DirectCalls :
        Len(MaskOf(c)) # PersonalData_length =>
            /\ c.completion = "return"
            /\ c.result \in DOMAIN heap
            /\ Keys(ResultOf(c)) \subseteq Keys(DataOf(c))
            /\ \A o \in Present(DataOf(c)) :
                   IF MaskHas(MaskOf(c), o) /\ MaskAt(MaskOf(c), o)
                   THEN IsDisclosed(ResultOf(c), FieldKey(o),
                                    ObjGet(DataOf(c), FieldKey(o)))
                   ELSE IsWithheld(ResultOf(c), FieldKey(o))

\* A call with a mask two long, true at both places, on a store that holds
\* the first and the last field: the first is disclosed, the last withheld.
C4_Witness ==
    \E c \in DirectCalls :
        LET o == PersonalData_length - 1
        IN  /\ MaskOf(c) = <<TRUE, TRUE>>
            /\ {0, o} \subseteq Present(DataOf(c))
            /\ c.completion = "return"
            /\ IsDisclosed(ResultOf(c), FieldKey(0), ObjGet(DataOf(c), FieldKey(0)))
            /\ IsWithheld(ResultOf(c), FieldKey(o))

\* The keys of a store that are no registry ordinal's string.
UnknownKeys(d) == Keys(d) \ {FieldKey(o) : o \in Ordinals}

\* The index JavaScript reads the mask at for the unknown keys the model
\* uses, -1 standing for none: "1x" and " 1" read index 1, the string of the
\* registry's length reads that index, "-1" and "age" read none.
UnknownKeyIndex(key) ==
    CASE key = <<"1", "x">> -> 1
      [] key = <<" ", "1">> -> 1
      [] key = ToString(PersonalData_length) -> PersonalData_length
      [] OTHER -> -1

\* C5, as claimed: a call on a store with a key that is no valid registry
\* ordinal completes with UnknownField and produces no result.
C5_UnknownFieldReported ==
    \A c \in DirectCalls :
        UnknownKeys(DataOf(c)) # {} =>
            /\ c.completion = "UnknownField"
            /\ c.result \notin DOMAIN heap

\* C5, amended: a call on a store with a key that is no valid registry
\* ordinal returns normally, with a result that has an entry for every key
\* of the data but __proto__, the other unknown keys included; the entry of
\* an unknown key is Disclosed when the number its text starts with is an
\* index of the mask that holds true, and Withheld otherwise (no leading
\* number, a negative one, or one at or past the mask's end).
C5_UnknownFieldTolerated ==
    \A c \in DirectCalls :
        UnknownKeys(DataOf(c)) # {} =>
            /\ c.completion = "return"
            /\ c.result \in DOMAIN heap
            /\ Keys(ResultOf(c)) = Keys(DataOf(c)) \ {ProtoKey}
            /\ \A key \in UnknownKeys(DataOf(c)) \ {ProtoKey} :
                   LET idx == UnknownKeyIndex(key)
                   IN  IF MaskHas(MaskOf(c), idx) /\ MaskAt(MaskOf(c), idx)
                       THEN IsDisclosed(ResultOf(c), key, ObjGet(DataOf(c), key))
                       ELSE IsWithheld(ResultOf(c), key)

\* A call with an all-true mask of the registry's length on a store with
\* the keys "1x" and "age": "1x" is disclosed, "age" is withheld.
C5_Witness ==
    \E c \in DirectCalls :
        /\ Len(MaskOf(c)) = PersonalData_length
        /\ MaskAt(MaskOf(c), 1) = TRUE
        /\ {<<"1", "x">>, <<"a", "g", "e">>} \subseteq Keys(DataOf(c))
        /\ c.completion = "return"
        /\ IsDisclosed(ResultOf(c), <<"1", "x">>, ObjGet(DataOf(c), <<"1", "x">>))
        /\ IsWithheld(ResultOf(c), <<"a", "g", "e">>)

\* C6 (Non-mutation): a step that calls perform_selective_disclosure(m, d)
\* leaves the objects d and m as they were, and the result it returns is a
\* new object: no object that existed before the call, d included.
C6_NonMutation ==
    [][\A c \in DirectCalls' \ DirectCalls :
          /\ heap'[c.data] = heap[c.data]
          /\ heap'[c.request] = heap[c.request]
          /\ c.result \notin DOMAIN heap
          /\ c.result \in DOMAIN heap'
          /\ c.result # c.data]_vars

\* A call was made with a mask that withholds a present field and discloses
\* another: the result differs from the data, which still holds both values.
C6_Witness ==
    \E c \in DirectCalls :
        /\ {0, 1} \subseteq Present(DataOf(c))
        /\ IsWithheld(ResultOf(c), FieldKey(0))
        /\ IsDisclosed(ResultOf(c), FieldKey(1), ObjGet(DataOf(c), FieldKey(1)))
        /\ ObjGet(DataOf(c), FieldKey(0)) = rileyDataValues[1]
        /\ c.result # c.data

\* C7 (Determinism): any two calls made with equal masks and equal data
\* have equal results, whatever the ledger held at either call and whatever
\* uploads and calls came between them.
C7_Determinism ==
    \A i, j \in 1..Len(calls) :
        (MaskOf(calls[i]) = MaskOf(calls[j]) /\ DataOf(calls[i]) = DataOf(calls[j]))
            => ResultOf(calls[i]) = ResultOf(calls[j])

\* Two calls with the same mask, the first made before the upload and the
\* last after it, with a call of another mask between them.
C7_Witness ==
    /\ Len(calls) >= 3
    /\ MaskOf(calls[1]) = MaskOf(calls[3])
    /\ MaskOf(calls[1]) # MaskOf(calls[2])
    /\ calls[1].result # calls[3].result
    /\ calls[1].ledger = InitialLedgerRef
    /\ calls[3].ledger = rileyDataRef
    /\ DisclosesSomething(ResultOf(calls[1]))

\* C8: a step that calls circuit_selective_disclosure leaves publicLedger,
\* and the object it refers to, unchanged; a step that changes publicLedger
\* is a step of circuit_upload_data.
C8_CircuitIsPure ==
    [][/\ (calls' # calls) =>
              /\ publicLedger' = publicLedger
              /\ heap'[publicLedger.data] = heap[publicLedger.data]
       /\ (publicLedger' # publicLedger) =>
              /\ publicLedger' = circuit_upload_data(State).publicLedger
              /\ UNCHANGED <<heap, input, calls>>]_vars

\* The circuit was called on the initial ledger, which is still as it was;
\* then the upload changed the ledger.
C8_Witness ==
    /\ Len(calls) >= 1
    /\ calls[1].ledger = InitialLedgerRef
    /\ heap[InitialLedgerRef] = <<>>
    /\ publicLedger.data = rileyDataRef

\* The result of perform_selective_disclosure(mask, store) run alone: in a
\* state that holds nothing but the store and the mask.
RunAlone(mask, store) ==
    LET out == perform_selective_disclosure(
                   [heap |-> <<store, mask>>, publicLedger |-> [data |-> 1]], 2, 1)
    IN  out.st.heap[out.ret]

\* C9: under every interleaving of disclosure calls and uploads, each
\* disclosure call read one complete snapshot of the data store (every
\* field of the witness's store, with its value) and its result is the
\* result of the same call run alone on that snapshot.
C9_ConsistentSnapshot ==
    \A c \in CircuitCalls :
        /\ DataOf(c) = rileyData
        /\ Len(DataOf(c)) = PersonalData_length
        /\ ResultOf(c) = RunAlone(MaskOf(c), DataOf(c))

\* Calls made on both sides of an upload: one while the ledger was still
\* empty, a later one once it held the store.
C9_Witness ==
    \E i, j \in 1..Len(calls) :
        /\ i < j
        /\ calls[i].ledger = InitialLedgerRef
        /\ calls[j].ledger = rileyDataRef
        /\ MaskOf(calls[i]) # MaskOf(calls[j])
        /\ ResultOf(calls[j]) = RunAlone(MaskOf(calls[j]), rileyData)

\* C10, as claimed: the result of every call of circuit_selective_disclosure
\* is the result of perform_selective_disclosure on the store the ledger
\* held at the call, so a call made while the ledger is still empty
\* discloses no value.
C10_ReadsLedger ==
    \A c \in CircuitCalls :
        /\ ResultOf(c) = RunAlone(MaskOf(c), heap[c.ledger])
        /\ (heap[c.ledger] = <<>> => ~DisclosesSomething(ResultOf(c)))

\* The ledger holds the complete data store: the object publicLedger.data
\* refers to has what the object returned by witness_get_data has, which is
\* one property per registry field, each with the value of rileyData.
LedgerHoldsStore ==
    LET ledgerData == heap[publicLedger.data]
    IN  /\ ledgerData = heap[witness_get_data(State)]
        /\ Len(ledgerData) = PersonalData_length
        /\ \A o \in Ordinals :
               /\ HasKey(ledgerData, FieldKey(o))
               /\ ObjGet(ledgerData, FieldKey(o)) = rileyDataValues[o + 1]

\* C11: a run of circuit_upload_data, from any state the program reaches,
\* leaves publicLedger.data equal to the complete data store returned by
\* witness_get_data, field by field and value by value; once the ledger
\* holds the store, every further upload and every disclosure call leaves it
\* so, and one more upload leaves the ledger exactly what it was.
C11_LedgerKeepsStore ==
    /\ [](LET st == circuit_upload_data(State)
          IN  /\ st.heap[st.publicLedger.data] = st.heap[witness_get_data(st)]
              /\ st.heap[st.publicLedger.data] = rileyData
              /\ LedgerHoldsStore =>
                     /\ st.publicLedger = publicLedger
                     /\ st.heap[st.publicLedger.data] = heap[publicLedger.data])
    /\ [][/\ Upload => LedgerHoldsStore'
          /\ LedgerHoldsStore =>
                 /\ LedgerHoldsStore'
                 /\ publicLedger' = publicLedger
                 /\ heap'[publicLedger'.data] = heap[publicLedger.data]]_vars

\* The ledger holds the store after an upload that was followed by further
\* disclosure calls: one call was made while the ledger was still empty, two
\* more once it held the store.
C11_Witness ==
    /\ LedgerHoldsStore
    /\ Len(calls) = MaxCalls
    /\ calls[1].ledger = InitialLedgerRef
    /\ \A i \in 2..Len(calls) : calls[i].ledger = rileyDataRef

\* The mask m has an entry at a parsed index: the index is a number, not
\* negative, and before the mask's end.
HasMaskEntry(m, index) == ~index.isNaN /\ MaskHas(m, index.n)

\* The mask m holds true at a parsed index.
MaskTrueAt(m, index) == HasMaskEntry(m, index) /\ MaskAt(m, index.n) = TRUE

\* C12, as claimed (fail-closed disclosure): in every call, whatever the
\* mask's length, for every key of the data store the entry of the result is
\* Disclosed only if the mask holds true at the index parsed from the key; a
\* key whose parsed index has no mask entry has the entry Withheld; and the
\* result carries no value, under any key, without a true mask entry.
C12_FailClosed ==
    \A c \in DirectCalls :
        /\ \A key \in Keys(DataOf(c)) :
               LET index == parseInt(key)
               IN  /\ (HasKey(ResultOf(c), key) /\ ObjGet(ResultOf(c), key).is_some)
                          => MaskTrueAt(MaskOf(c), index)
                   /\ ~HasMaskEntry(MaskOf(c), index)
                          => IsWithheld(ResultOf(c), key)
        /\ \A key \in Keys(ResultOf(c)) :
               "value" \in DOMAIN ObjGet(ResultOf(c), key)
                   => /\ HasKey(DataOf(c), key)
                      /\ MaskTrueAt(MaskOf(c), parseInt(key))

\* C12, for every key but __proto__: the statement above holds of the keys
\* other than __proto__, and the key __proto__, which parses to no number,
\* has no entry in the result at all, neither Withheld nor Disclosed.
C12_FailClosedOwnKeys ==
    \A c \in DirectCalls :
        /\ \A key \in Keys(DataOf(c)) \ {ProtoKey} :
               LET index == parseInt(key)
               IN  /\ (HasKey(ResultOf(c), key) /\ ObjGet(ResultOf(c), key).is_some)
                          => MaskTrueAt(MaskOf(c), index)
                   /\ ~HasMaskEntry(MaskOf(c), index)
                          => IsWithheld(ResultOf(c), key)
        /\ \A key \in Keys(ResultOf(c)) :
               "value" \in DOMAIN ObjGet(ResultOf(c), key)
                   => /\ HasKey(DataOf(c), key)
                      /\ MaskTrueAt(MaskOf(c), parseInt(key))
        /\ parseInt(ProtoKey).isNaN
        /\ ~HasKey(ResultOf(c), ProtoKey)

=============================================================================
